---- MODULE Spec2Model ----
(***************************************************************************)
(* Cert-Agent: the polling driver of src/main.py (lines 299-346) that      *)
(* routes certificate PDFs through the inbound, working, done and error    *)
(* folders, with the hash ledger, the reference table and the text         *)
(* functions it calls.                                                     *)
(***************************************************************************)
EXTENDS Naturals, Sequences, FiniteSets, TLC

\* ------------------------------------------------------------------ bounds
\* Number of files the environment drops into the inbound folder.
MaxArrivals == 2

\* ------------------------------------------------------------------ text
\* Text is a sequence of one-character strings; "\n" separates lines.
NL == "\n"

Digits == {"0", "1", "2", "3", "4", "5", "6", "7", "8", "9"}

\* The positions 1..n at which P holds, in increasing order.
Where(n, P(_)) == SelectSeq([i \in 1..n |-> i], P)

\* number of consecutive characters of s from position i that are in set
RECURSIVE SpanLen(_, _, _)
SpanLen(s, i, set) ==
    IF i <= Len(s) /\ s[i] \in set THEN 1 + SpanLen(s, i + 1, set) ELSE 0

\* re.findall(r"\d+", s): the maximal digit runs of s, in order.
FindallDigits(s) ==
    LET starts == Where(Len(s), LAMBDA i :
                      s[i] \in Digits /\ (i = 1 \/ s[i - 1] \notin Digits))
    IN  [k \in 1..Len(starts) |->
           SubSeq(s, starts[k], starts[k] + SpanLen(s, starts[k], Digits) - 1)]

Range(q) == {q[i] : i \in 1..Len(q)}

\* s.replace(old, new): left to right, non-overlapping.
RECURSIVE ReplaceAll(_, _, _, _)
ReplaceAll(s, old, new, i) ==
    IF i > Len(s) THEN <<>>
    ELSE IF i + Len(old) - 1 <= Len(s) /\ SubSeq(s, i, i + Len(old) - 1) = old
         THEN new \o ReplaceAll(s, old, new, i + Len(old))
         ELSE <<s[i]>> \o ReplaceAll(s, old, new, i + 1)

\* ------------------------------------------------------- string helpers
UpperChars == << "A", "B", "C", "D", "E", "F", "G", "H", "I", "J", "K", "L", "M",
                 "N", "O", "P", "Q", "R", "S", "T", "U", "V", "W", "X", "Y", "Z" >>
LowerChars == << "a", "b", "c", "d", "e", "f", "g", "h", "i", "j", "k", "l", "m",
                 "n", "o", "p", "q", "r", "s", "t", "u", "v", "w", "x", "y", "z" >>

IndexIn(q, ch) == LET at == Where(Len(q), LAMBDA i : q[i] = ch)
                  IN  IF at = <<>> THEN 0 ELSE at[1]

\* str.lower(), one character
LowerCh(ch) == IF IndexIn(UpperChars, ch) # 0
               THEN LowerChars[IndexIn(UpperChars, ch)] ELSE ch
UpperCh(ch) == IF IndexIn(LowerChars, ch) # 0
               THEN UpperChars[IndexIn(LowerChars, ch)] ELSE ch
IsCased(ch) == IndexIn(UpperChars, ch) # 0 \/ IndexIn(LowerChars, ch) # 0

\* str.lower()
Lower(s) == [i \in 1..Len(s) |-> LowerCh(s[i])]

\* str.title(): a cased character is upper-cased after an uncased one (or
\* at the start) and lower-cased otherwise.
Title(s) == [i \in 1..Len(s) |->
               IF i = 1 \/ ~IsCased(s[i - 1]) THEN UpperCh(s[i]) ELSE LowerCh(s[i])]

StartsAt(s, i, sub) ==
    /\ i >= 1
    /\ i + Len(sub) - 1 <= Len(s)
    /\ SubSeq(s, i, i + Len(sub) - 1) = sub

\* s.find(sub) + 1 (0 when sub does not occur)
Find(s, sub) ==
    LET at == Where(Len(s) + 1, LAMBDA i : StartsAt(s, i, sub))
    IN  IF at = <<>> THEN 0 ELSE at[1]

\* sub in s
Contains(s, sub) == Find(s, sub) # 0

\* str.splitlines() on "\n": a line starts at the first character and after
\* every "\n" that is not the last character, and ends before the next "\n".
SplitLines(s) ==
    LET starts == Where(Len(s), LAMBDA i : i = 1 \/ s[i - 1] = NL)
    IN  [k \in 1..Len(starts) |->
           SubSeq(s, starts[k], starts[k] + SpanLen(s, starts[k], {ch \in Range(s) : ch # NL}) - 1)]

Whitespace == {" ", "\t"}

\* not s.strip()
IsBlank(s) == \A i \in 1..Len(s) : s[i] \in Whitespace

\* str.strip()
RECURSIVE Strip(_)
Strip(s) ==
    IF s = <<>> THEN s
    ELSE IF s[1] \in Whitespace THEN Strip(Tail(s))
    ELSE IF s[Len(s)] \in Whitespace THEN Strip(SubSeq(s, 1, Len(s) - 1))
    ELSE s

\* re.search(r"([0-9]+\.[0-9]+)", s): the leftmost match, greedy; <<>> when
\* there is none.
DecimalAt(s, i) ==
    LET n == SpanLen(s, i, Digits)
        m == IF n > 0 /\ i + n <= Len(s) /\ s[i + n] = "."
             THEN SpanLen(s, i + n + 1, Digits) ELSE 0
    IN  IF m > 0 THEN SubSeq(s, i, i + n + m) ELSE <<>>

\* A search that takes the last decimal of the line instead of the first.
\* C12 has to tell it from SearchDecimal.
SearchDecimal_last(s) ==
    LET at == Where(Len(s), LAMBDA i : DecimalAt(s, i) # <<>>)
    IN  IF at = <<>> THEN <<>> ELSE DecimalAt(s, at[Len(at)])

\* A match starting inside a digit run needs the "." right after the run,
\* so the leftmost match starts at the first digit of a run that is
\* followed by "." and a digit.
SearchDecimal(s) ==
    LET at == Where(Len(s), LAMBDA i : DecimalAt(s, i) # <<>>)
    IN  IF at = <<>> THEN <<>> ELSE DecimalAt(s, at[1])

\* re.search(r"([0-9]+(?:\/[0-9]+)?)", s)
SearchLot(s) ==
    LET at == Where(Len(s), LAMBDA i : s[i] \in Digits)
    IN  IF at = <<>> THEN <<>>
        ELSE LET i == at[1]
                 n == SpanLen(s, i, Digits)
                 m == IF i + n <= Len(s) /\ s[i + n] = "/"
                      THEN SpanLen(s, i + n + 1, Digits) ELSE 0
             IN  IF m > 0 THEN SubSeq(s, i, i + n + m) ELSE SubSeq(s, i, i + n - 1)

\* re.search(r"dokki[-\d]+", s)
SearchDokki(s) ==
    LET dokki == <<"d", "o", "k", "k", "i">>
        at == Where(Len(s), LAMBDA i :
                 StartsAt(s, i, dokki) /\ SpanLen(s, i + 5, Digits \cup {"-"}) > 0)
    IN  IF at = <<>> THEN <<>>
        ELSE LET i == at[1]
             IN  SubSeq(s, i, i + 4 + SpanLen(s, i + 5, Digits \cup {"-"}))

\* ------------------------------------------------------------ lexicon
\* products_list.csv and pesticides_list.csv, each entry stripped and
\* lower-cased, in file order.
PRODUCTS == << << "o", "r", "a", "n", "g", "e" >>,
               << "g", "r", "a", "p", "e" >> >>

PESTICIDES == << << "d", "d", "t" >>,
                 << "l", "i", "n", "d", "a", "n", "e" >> >>

\* The fixed phrases of the extractors.
S_certificate_number == << "c", "e", "r", "t", "i", "f", "i", "c", "a", "t", "e", " ", "n", "u",
       "m", "b", "e", "r" >>
S_lot_number == << "l", "o", "t", " ", "n", "u", "m", "b", "e", "r" >>
S_sample_colon == << "s", "a", "m", "p", "l", "e", " ", ":" >>
S_results_of_analysis == << "r", "e", "s", "u", "l", "t", "s", " ", "o", "f", " ", "a", "n", "a",
       "l", "y", "s", "i", "s" >>
S_measurement_uncertainty == << "m", "e", "a", "s", "u", "r", "e", "m", "e", "n", "t", " ", "u", "n",
       "c", "e", "r", "t", "a", "i", "n", "t", "y" >>
S_not_detected == << "n", "o", "t", " ", "d", "e", "t", "e", "c", "t", "e", "d" >>
S_loq == << "<", "l", "o", "q" >>
S_Pesticide_Residues == << "P", "e", "s", "t", "i", "c", "i", "d", "e", " ", "R", "e", "s", "i",
       "d", "u", "e", "s" >>
S_Not_detected == << "N", "o", "t", " ", "d", "e", "t", "e", "c", "t", "e", "d" >>
S_LOQ == << "L", "O", "Q" >>
S_mg_kg == << "m", "g", "/", "k", "g" >>
S_fax == << "f", "a", "x" >>
S_phone == << "p", "h", "o", "n", "e" >>
S_id == << "i", "d" >>

\* ------------------------------------------------------ header extractor
\* The first line, top to bottom, that contains the phrase and the pattern.
RECURSIVE FirstCert(_, _)
FirstCert(lines, i) ==
    IF i > Len(lines) THEN <<>>
    ELSE LET ll == Lower(lines[i])
             m  == SearchDokki(ll)
         IN  IF Contains(ll, S_certificate_number) /\ m # <<>>
             THEN <<"D">> \o Tail(m)
             ELSE FirstCert(lines, i + 1)

\* A scan in which a later qualifying line replaces the lot number found so
\* far.  C14 has to tell it from FirstLot.
RECURSIVE FirstLot_lastWins(_, _)
FirstLot_lastWins(lines, i) ==
    IF i > Len(lines) THEN <<>>
    ELSE LET m     == SearchLot(lines[i])
             later == FirstLot_lastWins(lines, i + 1)
         IN  IF later # <<>> THEN later
             ELSE IF Contains(Lower(lines[i]), S_lot_number) /\ m # <<>>
             THEN m
             ELSE <<>>

RECURSIVE FirstLot(_, _)
FirstLot(lines, i) ==
    IF i > Len(lines) THEN <<>>
    ELSE LET m == SearchLot(lines[i])
         IN  IF Contains(Lower(lines[i]), S_lot_number) /\ m # <<>>
             THEN m
             ELSE FirstLot(lines, i + 1)

\* for prod in PRODUCTS: if prod in raw_text.lower(): prod.title(); break
RECURSIVE FirstProduct(_, _)
FirstProduct(text, k) ==
    IF k > Len(PRODUCTS) THEN <<>>
    ELSE IF Contains(Lower(text), PRODUCTS[k]) THEN Title(PRODUCTS[k])
    ELSE FirstProduct(text, k + 1)

\* re.split(r"(fax|phone|id|\d)", val, flags=re.I)[0]
BeforeStop(val) ==
    LET lv == Lower(val)
        at == Where(Len(val), LAMBDA i :
                 \/ StartsAt(lv, i, S_fax)
                 \/ StartsAt(lv, i, S_phone)
                 \/ StartsAt(lv, i, S_id)
                 \/ val[i] \in Digits)
    IN  IF at = <<>> THEN val ELSE SubSeq(val, 1, at[1] - 1)

RECURSIVE SampleFallback(_, _)
SampleFallback(lines, i) ==
    IF i > Len(lines) THEN <<>>
    ELSE IF StartsAt(Lower(lines[i]), 1, S_sample_colon)
         THEN LET l   == lines[i]
                  val == SubSeq(l, Find(l, <<":">>) + 1, Len(l))
              IN  Strip(BeforeStop(val))
         ELSE SampleFallback(lines, i + 1)

extract_header_fields(text) ==
    LET lines  == SplitLines(text)
        sample == FirstProduct(text, 1)
    IN  [CertificateNumber |-> FirstCert(lines, 1),
         Sample |-> IF sample # <<>> THEN sample ELSE SampleFallback(lines, 1),
         LotNumber |-> FirstLot(lines, 1)]

\* ----------------------------------------------------- results extractor
Row(hdr, analyte, result, unit) ==
    [CertificateNumber |-> hdr.CertificateNumber,
     Sample |-> hdr.Sample,
     LotNumber |-> hdr.LotNumber,
     Analyte |-> analyte, Result |-> result, Unit |-> unit]

\* A line scan that looks for the decimal before it looks for "<loq".
\* C13 has to tell it from LineRows.
RECURSIVE LineRows_decimalFirst(_, _, _)
LineRows_decimalFirst(ll, hdr, k) ==
    IF k > Len(PESTICIDES) THEN <<>>
    ELSE LET pest == PESTICIDES[k]
             m    == SearchDecimal(ll)
             here == IF ~Contains(ll, pest) THEN <<>>
                     ELSE IF m # <<>>
                          THEN << Row(hdr, Title(pest), m, S_mg_kg) >>
                     ELSE IF Contains(ll, S_loq)
                          THEN << Row(hdr, Title(pest), S_LOQ, <<>>) >>
                     ELSE <<>>
         IN  here \o LineRows_decimalFirst(ll, hdr, k + 1)

\* The rows one captured line adds: one per lexicon analyte it contains.
RECURSIVE LineRows(_, _, _)
LineRows(ll, hdr, k) ==
    IF k > Len(PESTICIDES) THEN <<>>
    ELSE LET pest == PESTICIDES[k]
             m    == SearchDecimal(ll)
             here == IF ~Contains(ll, pest) THEN <<>>
                     ELSE IF Contains(ll, S_loq)
                          THEN << Row(hdr, Title(pest), S_LOQ, <<>>) >>
                     ELSE IF m # <<>>
                          THEN << Row(hdr, Title(pest), m, S_mg_kg) >>
                     ELSE <<>>
         IN  here \o LineRows(ll, hdr, k + 1)

\* A scan in which "measurement uncertainty" only switches capturing off, so
\* that a later "results of analysis" line switches it on again.  C15 has
\* to tell it from ResultsFrom.
RECURSIVE ResultsFrom_reentrant(_, _, _, _, _)
ResultsFrom_reentrant(lines, i, capture, acc, hdr) ==
    IF i > Len(lines) THEN acc
    ELSE LET ll == Lower(lines[i])
         IN  IF Contains(ll, S_results_of_analysis)
             THEN ResultsFrom_reentrant(lines, i + 1, TRUE, acc, hdr)
             ELSE IF ~capture
             THEN ResultsFrom_reentrant(lines, i + 1, capture, acc, hdr)
             ELSE IF Contains(ll, S_measurement_uncertainty)
             THEN ResultsFrom_reentrant(lines, i + 1, FALSE, acc, hdr)
             ELSE IF IsBlank(ll)
             THEN ResultsFrom_reentrant(lines, i + 1, capture, acc, hdr)
             ELSE IF Contains(ll, S_not_detected)
             THEN Append(acc, Row(hdr, S_Pesticide_Residues, S_Not_detected, <<>>))
             ELSE ResultsFrom_reentrant(lines, i + 1, capture,
                                        acc \o LineRows(ll, hdr, 1), hdr)

RECURSIVE ResultsFrom(_, _, _, _, _)
ResultsFrom(lines, i, capture, acc, hdr) ==
    IF i > Len(lines) THEN acc
    ELSE LET ll == Lower(lines[i])
         IN  IF Contains(ll, S_results_of_analysis)
             THEN ResultsFrom(lines, i + 1, TRUE, acc, hdr)
             ELSE IF ~capture
             THEN ResultsFrom(lines, i + 1, capture, acc, hdr)
             ELSE IF Contains(ll, S_measurement_uncertainty)
             THEN acc
             ELSE IF IsBlank(ll)
             THEN ResultsFrom(lines, i + 1, capture, acc, hdr)
             ELSE IF Contains(ll, S_not_detected)
             THEN Append(acc, Row(hdr, S_Pesticide_Residues, S_Not_detected, <<>>))
             ELSE ResultsFrom(lines, i + 1, capture,
                              acc \o LineRows(ll, hdr, 1), hdr)

extract_results_to_rows(text, hdr) ==
    ResultsFrom(SplitLines(text), 1, FALSE, <<>>, hdr)

\* ------------------------------------------------------- reference table
\* The rows of the workbook, sheets concatenated (pd.concat): column 0 as
\* str(), column 2 (internal lot) and column 3 (supplier).
ExcelRows ==
    << [cell |-> <<"7", "7", "8", ".", "0">>, internal |-> "INT-99", supplier |-> "Acme Farms"],
       [cell |-> <<"1", "2", "/", "7", "7", "8">>, internal |-> "INT-12", supplier |-> "Delta Co"],
       [cell |-> <<"n", "a", "n">>, internal |-> "INT-00", supplier |-> "Nobody"] >>

\* One data-frame row per digit run of the cell (explode), rows without a
\* digit run dropped (notna).
RECURSIVE Explode(_, _)
Explode(table, i) ==
    IF i > Len(table) THEN <<>>
    ELSE LET r    == table[i]
             runs == FindallDigits(ReplaceAll(r.cell, <<".", "0">>, <<>>, 1))
         IN  [k \in 1..Len(runs) |->
                [Lot_external |-> runs[k], internal |-> r.internal,
                 supplier |-> r.supplier]]
             \o Explode(table, i + 1)

df == Explode(ExcelRows, 1)

\* df[df["Lot_external"].isin(external_lots)]
RowsXl(text) ==
    LET external_lots == Range(FindallDigits(text))
    IN  SelectSeq(df, LAMBDA r : r.Lot_external \in external_lots)

\* A reconciler that takes the supplier of the last matching record.  C16
\* has to tell it from Supplier.
Supplier_last(rows_xl) == rows_xl[Len(rows_xl)].supplier

\* reconciliation results of lines 331-333
Supplier(rows_xl) == rows_xl[1].supplier

\* Series.unique(): the distinct values in order of first appearance.
RECURSIVE Unique(_, _)
Unique(q, seen) ==
    IF q = <<>> THEN <<>>
    ELSE IF Head(q) \in seen THEN Unique(Tail(q), seen)
    ELSE <<Head(q)>> \o Unique(Tail(q), seen \cup {Head(q)})

\* sep.join(q)
RECURSIVE Join(_, _)
Join(q, sep) ==
    IF q = <<>> THEN <<>>
    ELSE IF Len(q) = 1 THEN <<q[1]>>
    ELSE <<q[1], sep>> \o Join(Tail(q), sep)

InternalText(rows_xl) ==
    Join(Unique([k \in 1..Len(rows_xl) |-> rows_xl[k].internal], {}), " / ")

\* ------------------------------------------------------------ the files
\* File names the environment uses, as character sequences.
NameA == << "a", ".", "p", "d", "f" >>
NameB == << "B", ".", "P", "D", "F" >>
NameN == << "n", ".", "t", "x", "t" >>
Names == {NameA, NameB, NameN}

S_pdf == << ".", "p", "d", "f" >>
S_RESULTS_csv == << "_", "R", "E", "S", "U", "L", "T", "S", ".", "c", "s", "v" >>
S_ANNOTATED_pdf == << "_", "A", "N", "N", "O", "T", "A", "T", "E", "D", ".", "p", "d", "f" >>

EndsWith(s, suffix) == StartsAt(s, Len(s) - Len(suffix) + 1, suffix)

\* file.lower().endswith(".pdf")
IsPdf(name) == EndsWith(Lower(name), S_pdf)

\* file.replace(".pdf", "_RESULTS.csv")
ResultsName(name) == ReplaceAll(name, S_pdf, S_RESULTS_csv, 1)

\* os.path.basename(pdf_path).replace(".pdf", "_ANNOTATED.pdf")
AnnotatedName(name) == ReplaceAll(name, S_pdf, S_ANNOTATED_pdf, 1)

Paths == Names \cup {ResultsName(n) : n \in Names} \cup {AnnotatedName(n) : n \in Names}

\* Document contents: each is a byte string with its OCR text.
Contents == {1, 2, 3}

\* ocr_text: the text tesseract returns for the pages of a content.
OcrText(c) ==
    CASE c = 1 -> << "C", "e", "r", "t", "i", "f", "i", "c", "a", "t", "e", " ", "N", "u",
       "m", "b", "e", "r", ":", " ", "D", "O", "K", "K", "I", "-", "2",
       "4", "-", "1", NL, "L", "o", "t", " ", "N", "u", "m", "b", "e", "r",
       ":", " ", "7", "7", "8", NL, "R", "e", "s", "u", "l", "t", "s", " ",
       "o", "f", " ", "A", "n", "a", "l", "y", "s", "i", "s", NL, "D", "D",
       "T", " ", "0", ".", "0", "2", " ", "m", "g", "/", "k", "g", NL, "M",
       "e", "a", "s", "u", "r", "e", "m", "e", "n", "t", " ", "U", "n",
       "c", "e", "r", "t", "a", "i", "n", "t", "y", " ", "5", "%", NL >>
      [] c = 2 -> << "L", "o", "t", " ", "N", "u", "m", "b", "e", "r", ":", " ", "1", "7",
       "7", "8", NL, "R", "e", "s", "u", "l", "t", "s", " ", "o", "f", " ",
       "A", "n", "a", "l", "y", "s", "i", "s", NL, "N", "o", "t", " ", "D",
       "e", "t", "e", "c", "t", "e", "d", NL >>
      [] c = 3 -> << "S", "a", "m", "p", "l", "e", " ", ":", " ", "K", "i", "w", "i", " ",
       "f", "a", "x", " ", "4", NL, "l", "o", "t", " ", "1", "2", NL >>

\* The texts OCR returns, and what the extractors and the reconciliation
\* lookup give on each: the functions are pure, so their values are
\* computed once per text and looked up by the text.
OcrTexts == {OcrText(c) : c \in Contents}

At(table, key) == (CHOOSE e \in table : e[1] = key)[2]

HeaderTable == {<<t, extract_header_fields(t)>> : t \in OcrTexts}

RowsTable ==
    {<<t, extract_results_to_rows(t, At(HeaderTable, t))>> : t \in OcrTexts}

RowsXlTable == {<<t, RowsXl(t)>> : t \in OcrTexts}

\* file_hash: SHA-256 of the bytes, taken as collision-free.
file_hash(c) == <<"sha256", c>>

NoFile == [kind |-> "none", id |-> 0, c |-> 0]
Cert(id, c) == [kind |-> "cert", id |-> id, c |-> c]
Artifact(kind, id) == [kind |-> kind, id |-> id, c |-> 0]

EmptyFolder == [p \in Paths |-> NoFile]

NoName == <<>>
NoHeader == [CertificateNumber |-> <<>>, Sample |-> <<>>, LotNumber |-> <<>>]
NoCur == [f |-> NoFile, name |-> NoName, dup |-> FALSE, ran |-> {},
          raised |-> "", printed |-> ""]

\* ------------------------------------------------------------ the state
VARIABLES
    inbox, proc, done, err,  \* the four folders: path -> file
    ledger,                  \* table processed: set of [filehash, filename]
    pc,                      \* the driver's position in the main loop
    todo,                    \* names of os.listdir(INBOX) not yet iterated
    file, h, raw_text, header, rows, supplier, internal_text, annotated,
                             \* the loop body's locals
    arrivals,                \* number of files dropped so far
    other,                   \* a second instance of the loop on the same
                             \* folders and ledger, while it is not running:
                             \* its position and locals
    discovered,              \* certificate files a scan has listed
    cur,                     \* what has happened to the file handled (last)
    completed                \* files whose non-duplicate path has completed

folders == <<inbox, proc, done, err>>
locals == <<file, h, raw_text, header, rows, supplier, internal_text, annotated>>
\* What a step of the running instance leaves alone.
env == <<arrivals, other>>
ghost == <<discovered, cur, completed>>
vars == <<inbox, proc, done, err, ledger, pc, todo, file, h, raw_text, header,
          rows, supplier, internal_text, annotated, arrivals, other,
          discovered, cur, completed>>

NoHash == <<>>

ClearLocals ==
    /\ file' = NoName
    /\ h' = NoHash
    /\ raw_text' = <<>>
    /\ header' = NoHeader
    /\ rows' = <<>>
    /\ supplier' = ""
    /\ internal_text' = <<>>
    /\ annotated' = NoName

\* An instance that has just been started: at the listing, no locals.
Started ==
    [pc |-> "listdir", todo |-> {}, file |-> NoName, h |-> NoHash,
     raw_text |-> <<>>, header |-> NoHeader, rows |-> <<>>, supplier |-> "",
     internal_text |-> <<>>, annotated |-> NoName, cur |-> NoCur]

Init ==
    /\ inbox = EmptyFolder /\ proc = EmptyFolder
    /\ done = EmptyFolder /\ err = EmptyFolder
    /\ ledger = {}
    /\ pc = "listdir"
    /\ todo = {}
    /\ file = NoName /\ h = NoHash /\ raw_text = <<>> /\ header = NoHeader
    /\ rows = <<>> /\ supplier = "" /\ internal_text = <<>> /\ annotated = NoName
    /\ arrivals = 0
    /\ other = Started
    /\ discovered = {} /\ cur = NoCur /\ completed = {}

LedgerHashes == {e.filehash : e \in ledger}

\* already_done(h)
already_done(hh) == hh \in LedgerHashes

\* mark_done(h, name): INSERT OR IGNORE on the primary key filehash
mark_done(hh, name) ==
    IF hh \in LedgerHashes THEN ledger
    ELSE ledger \cup {[filehash |-> hh, filename |-> name]}

\* The loop body is left: back to the for statement.
EndFile(c) ==
    /\ pc' = "for"
    /\ cur' = c
    /\ ClearLocals

Ran(step) == [cur EXCEPT !.ran = @ \cup {step}]

\* A statement of the try block raises: control goes to the except clause.
Raise(step) ==
    /\ pc' = "handler"
    /\ cur' = [cur EXCEPT !.raised = step]

\* ------------------------------------------------------- the environment
\* What the environment drops: each content under the name a.pdf, one
\* content under the upper-case name B.PDF, and one file that is no PDF.
Dropped == {<<NameA, c>> : c \in Contents} \cup {<<NameB, 1>>, <<NameN, 1>>}

\* A file is dropped into the inbound folder. The loop body reads the
\* inbound folder only for the file it has picked (line 308), so an arrival
\* during the body is the arrival right after it; arrivals are taken between
\* the files of a scan, between scans and while the process is down.
Arrive ==
    /\ arrivals < MaxArrivals
    /\ pc \in {"listdir", "for", "stopped"}
    /\ \E d \in Dropped :
         /\ inbox[d[1]] = NoFile
         /\ inbox' = [inbox EXCEPT ![d[1]] = Cert(arrivals + 1, d[2])]
    /\ arrivals' = arrivals + 1
    /\ UNCHANGED <<proc, done, err, ledger, pc, todo, locals, other, ghost>>

\* The process is killed; committed ledger rows and the folders stay.
Crash ==
    /\ pc # "stopped"
    /\ pc' = "stopped"
    /\ todo' = {}
    /\ ClearLocals
    /\ cur' = NoCur
    /\ UNCHANGED <<folders, ledger, env, discovered, completed>>

\* The program is started again: lines 1-297, then the loop.
Restart ==
    /\ pc = "stopped"
    /\ pc' = "listdir"
    /\ cur' = NoCur
    /\ UNCHANGED <<folders, ledger, todo, locals, env, discovered, completed>>

\* --------------------------------------------------- the loop, 299-346
\* for file in os.listdir(INBOX)
ListDir ==
    /\ pc = "listdir"
    /\ todo' = {n \in Names : inbox[n] # NoFile}
    /\ discovered' = discovered \cup {inbox[n] : n \in {m \in Names : inbox[m] # NoFile /\ IsPdf(m)}}
    /\ pc' = "for"
    /\ UNCHANGED <<folders, ledger, locals, env, cur, completed>>

\* The listing is exhausted: time.sleep(5), then the next listing.
ForDone ==
    /\ pc = "for"
    /\ todo = {}
    /\ pc' = "listdir"
    /\ cur' = NoCur
    /\ UNCHANGED <<folders, ledger, todo, locals, env, discovered, completed>>

\* if not file.lower().endswith(".pdf"): continue
ForSkip ==
    /\ pc = "for"
    /\ \E n \in todo :
         /\ ~IsPdf(n)
         /\ todo' = todo \ {n}
    /\ UNCHANGED <<folders, ledger, pc, locals, env, ghost>>

ForPick ==
    /\ pc = "for"
    /\ \E n \in todo :
         /\ IsPdf(n)
         /\ todo' = todo \ {n}
         /\ file' = n
    /\ pc' = "claim"
    /\ cur' = NoCur
    /\ UNCHANGED <<folders, ledger, h, raw_text, header, rows, supplier,
                   internal_text, annotated, env, discovered, completed>>

\* shutil.move(src, work), line 308. A file already at the destination is
\* replaced (os.rename on POSIX; the copy2 fallback on Windows).
ClaimOk ==
    /\ pc = "claim"
    /\ inbox[file] # NoFile
    /\ proc' = [proc EXCEPT ![file] = inbox[file]]
    /\ inbox' = [inbox EXCEPT ![file] = NoFile]
    /\ cur' = [NoCur EXCEPT !.f = inbox[file], !.name = file, !.ran = {"claim"}]
    /\ pc' = "hash"
    /\ UNCHANGED <<done, err, ledger, todo, locals, env, discovered, completed>>

\* The move raises (the file is locked or gone): nothing has moved.
ClaimFail ==
    /\ pc = "claim"
    /\ Raise("claim")
    /\ UNCHANGED <<folders, ledger, todo, locals, env, discovered, completed>>

\* A driver without the short-circuit: a known hash is noticed but the file
\* is processed all the same. C2 has to tell it from HashCheck.
HashCheck_noShortCircuit ==
    /\ pc = "hash"
    /\ proc[file] # NoFile
    /\ h' = file_hash(proc[file].c)
    /\ pc' = "ocr"
    /\ cur' = [Ran("hash") EXCEPT !.dup = already_done(h')]
    /\ UNCHANGED <<folders, ledger, todo, file, raw_text, header, rows, supplier,
                   internal_text, annotated, env, discovered, completed>>

\* h = file_hash(work); if already_done(h), lines 310-311. Opening a
\* working file that is no longer there raises (HashFail); the same holds
\* for every later statement that reads or moves it.
HashCheck ==
    /\ pc = "hash"
    /\ proc[file] # NoFile
    /\ h' = file_hash(proc[file].c)
    /\ IF already_done(h')
       THEN pc' = "dupmove" /\ cur' = [Ran("hash") EXCEPT !.dup = TRUE]
       ELSE pc' = "ocr" /\ cur' = Ran("hash")
    /\ UNCHANGED <<folders, ledger, todo, file, raw_text, header, rows, supplier,
                   internal_text, annotated, env, discovered, completed>>

HashFail ==
    /\ pc = "hash"
    /\ Raise("hash")
    /\ UNCHANGED <<folders, ledger, todo, locals, env, discovered, completed>>

\* shutil.move(work, DONE/file); continue, lines 312-313
DupMoveOk ==
    /\ pc = "dupmove"
    /\ proc[file] # NoFile
    /\ done' = [done EXCEPT ![file] = proc[file]]
    /\ proc' = [proc EXCEPT ![file] = NoFile]
    /\ EndFile(Ran("dupmove"))
    /\ UNCHANGED <<inbox, err, ledger, todo, env, discovered, completed>>

DupMoveFail ==
    /\ pc = "dupmove"
    /\ Raise("dupmove")
    /\ UNCHANGED <<folders, ledger, todo, locals, env, discovered, completed>>

\* raw_text = ocr_text(work); header, rows, lines 315-318
OcrExtract ==
    /\ pc = "ocr"
    /\ proc[file] # NoFile
    /\ raw_text' = OcrText(proc[file].c)
    /\ header' = At(HeaderTable, raw_text')
    /\ rows' = At(RowsTable, raw_text')
    /\ cur' = [cur EXCEPT !.ran = @ \cup {"ocr", "extract"}]
    /\ pc' = "csv"
    /\ UNCHANGED <<folders, ledger, todo, file, h, supplier, internal_text,
                   annotated, env, discovered, completed>>

OcrFail ==
    /\ pc = "ocr"
    /\ Raise("ocr")
    /\ UNCHANGED <<folders, ledger, todo, locals, env, discovered, completed>>

\* if rows: DataFrame(rows).to_csv(DONE/..._RESULTS.csv), lines 320-324
CsvSkip ==
    /\ pc = "csv"
    /\ rows = <<>>
    /\ pc' = "reconcile"
    /\ UNCHANGED <<folders, ledger, todo, locals, env, ghost>>

CsvWrite ==
    /\ pc = "csv"
    /\ rows # <<>>
    /\ done' = [done EXCEPT ![ResultsName(file)] = Artifact("csv", cur.f.id)]
    /\ cur' = Ran("csv")
    /\ pc' = "reconcile"
    /\ UNCHANGED <<inbox, proc, err, ledger, todo, locals, env, discovered, completed>>

\* to_csv raises, before or after it has created the file.
CsvFail ==
    /\ pc = "csv"
    /\ rows # <<>>
    /\ \/ done' = done
       \/ done' = [done EXCEPT ![ResultsName(file)] = Artifact("csv", cur.f.id)]
    /\ Raise("csv")
    /\ UNCHANGED <<inbox, proc, err, ledger, todo, locals, env, discovered, completed>>

\* lines 326-333
ReconcileOk ==
    /\ pc = "reconcile"
    /\ At(RowsXlTable, raw_text) # <<>>
    /\ supplier' = Supplier(At(RowsXlTable, raw_text))
    /\ internal_text' = InternalText(At(RowsXlTable, raw_text))
    /\ cur' = Ran("reconcile")
    /\ pc' = "annotate"
    /\ UNCHANGED <<folders, ledger, todo, file, h, raw_text, header, rows,
                   annotated, env, discovered, completed>>

\* raise Exception("LOT NOT FOUND")
ReconcileFail ==
    /\ pc = "reconcile"
    /\ At(RowsXlTable, raw_text) = <<>>
    /\ Raise("reconcile")
    /\ UNCHANGED <<folders, ledger, todo, locals, env, discovered, completed>>

\* annotated = build_annotated_pdf(work, supplier, internal_text), line 335
AnnotateOk ==
    /\ pc = "annotate"
    /\ proc[file] # NoFile
    /\ done' = [done EXCEPT ![AnnotatedName(file)] = Artifact("annotated", proc[file].id)]
    /\ annotated' = AnnotatedName(file)
    /\ cur' = Ran("annotate")
    /\ pc' = "print"
    /\ UNCHANGED <<inbox, proc, err, ledger, todo, file, h, raw_text, header,
                   rows, supplier, internal_text, env, discovered, completed>>

\* build_annotated_pdf raises, before or after it has opened out_pdf; it
\* opens out_pdf only after it has read the working file.
AnnotateFail ==
    /\ pc = "annotate"
    /\ \/ done' = done
       \/ /\ proc[file] # NoFile
          /\ done' = [done EXCEPT ![AnnotatedName(file)] = Artifact("annotated", proc[file].id)]
    /\ Raise("annotate")
    /\ UNCHANGED <<inbox, proc, err, ledger, todo, locals, env, discovered, completed>>

\* A print step whose failure raises into the loop body. C10 has to tell it
\* from print_pdf.
print_pdf_raises ==
    /\ pc = "print"
    /\ \/ /\ cur' = [Ran("print") EXCEPT !.printed = "ok"]
          /\ pc' = "move_done"
       \/ /\ cur' = [cur EXCEPT !.printed = "failed", !.raised = "print"]
          /\ pc' = "handler"
    /\ UNCHANGED <<folders, ledger, todo, locals, env, discovered, completed>>

\* print_pdf(annotated, PRINTER): returns True or False, never raises.
print_pdf ==
    /\ pc = "print"
    /\ \E ok \in BOOLEAN :
         cur' = [Ran("print") EXCEPT !.printed = IF ok THEN "ok" ELSE "failed"]
    /\ pc' = "move_done"
    /\ UNCHANGED <<folders, ledger, todo, locals, env, discovered, completed>>

\* shutil.move(work, DONE/file), line 338
MoveDoneOk ==
    /\ pc = "move_done"
    /\ proc[file] # NoFile
    /\ done' = [done EXCEPT ![file] = proc[file]]
    /\ proc' = [proc EXCEPT ![file] = NoFile]
    /\ cur' = Ran("move_done")
    /\ completed' = completed \cup {cur.f}
    /\ pc' = "mark_done"
    /\ UNCHANGED <<inbox, err, ledger, todo, locals, env, discovered>>

MoveDoneFail ==
    /\ pc = "move_done"
    /\ Raise("move_done")
    /\ UNCHANGED <<folders, ledger, todo, locals, env, discovered, completed>>

\* mark_done(h, file), line 339
MarkDoneOk ==
    /\ pc = "mark_done"
    /\ ledger' = mark_done(h, file)
    /\ EndFile(Ran("mark_done"))
    /\ UNCHANGED <<folders, todo, env, discovered, completed>>

\* The insert or the commit raises: no row is written.
MarkDoneFail ==
    /\ pc = "mark_done"
    /\ Raise("mark_done")
    /\ UNCHANGED <<folders, ledger, todo, locals, env, discovered, completed>>

\* An except clause that records the hash as processed as well. C1 has to
\* tell it from HandlerMoveOk.
HandlerMoveOk_marks ==
    /\ pc = "handler"
    /\ proc[file] # NoFile
    /\ err' = [err EXCEPT ![file] = proc[file]]
    /\ proc' = [proc EXCEPT ![file] = NoFile]
    /\ ledger' = mark_done(file_hash(proc[file].c), file)
    /\ EndFile(Ran("to_err"))
    /\ UNCHANGED <<inbox, done, todo, env, discovered, completed>>

\* An except clause that only prints and leaves the working file where it
\* is.  C20 has to tell it from HandlerMoveOk.
HandlerMoveOk_printOnly ==
    /\ pc = "handler"
    /\ proc[file] # NoFile
    /\ EndFile(cur)
    /\ UNCHANGED <<folders, ledger, todo, env, discovered, completed>>

\* except Exception: if os.path.exists(work): shutil.move(work, ERR/file)
HandlerMoveOk ==
    /\ pc = "handler"
    /\ proc[file] # NoFile
    /\ err' = [err EXCEPT ![file] = proc[file]]
    /\ proc' = [proc EXCEPT ![file] = NoFile]
    /\ EndFile(Ran("to_err"))
    /\ UNCHANGED <<inbox, done, ledger, todo, env, discovered, completed>>

HandlerNoFile ==
    /\ pc = "handler"
    /\ proc[file] = NoFile
    /\ EndFile(cur)
    /\ UNCHANGED <<folders, ledger, todo, env, discovered, completed>>

\* The move inside the except clause raises: nothing catches it, the loop
\* and the process end.
HandlerMoveFail ==
    /\ pc = "handler"
    /\ proc[file] # NoFile
    /\ pc' = "stopped"
    /\ todo' = {}
    /\ cur' = Ran("handler_raised")
    /\ ClearLocals
    /\ UNCHANGED <<folders, ledger, env, discovered, completed>>

Driver ==
    \/ ListDir \/ ForDone \/ ForSkip \/ ForPick
    \/ ClaimOk \/ ClaimFail
    \/ HashCheck \/ HashFail
    \/ DupMoveOk \/ DupMoveFail
    \/ OcrExtract \/ OcrFail
    \/ CsvSkip \/ CsvWrite \/ CsvFail
    \/ ReconcileOk \/ ReconcileFail
    \/ AnnotateOk \/ AnnotateFail
    \/ print_pdf
    \/ MoveDoneOk \/ MoveDoneFail
    \/ MarkDoneOk \/ MarkDoneFail
    \/ HandlerMoveOk \/ HandlerNoFile \/ HandlerMoveFail

Next == Driver \/ Arrive \/ Crash \/ Restart

Spec == Init /\ [][Next]_vars

\* The loop never skips a step it is at: weak fairness of the driver, and
\* a stopped process is started again.
FairSpec == Spec /\ WF_vars(Driver) /\ WF_vars(Restart)

\* The loop of a process that keeps running and whose moves (lines 308, 312,
\* 338 and 343) succeed: every other statement may still raise.
ProgressDriver ==
    \/ ListDir \/ ForDone \/ ForSkip \/ ForPick
    \/ ClaimOk
    \/ HashCheck \/ HashFail
    \/ DupMoveOk
    \/ OcrExtract \/ OcrFail
    \/ CsvSkip \/ CsvWrite \/ CsvFail
    \/ ReconcileOk \/ ReconcileFail
    \/ AnnotateOk \/ AnnotateFail
    \/ print_pdf
    \/ MoveDoneOk
    \/ MarkDoneOk \/ MarkDoneFail
    \/ HandlerMoveOk \/ HandlerNoFile

ProgressNext == ProgressDriver \/ Arrive

\* Every statement terminates and the loop goes on: weak fairness of the
\* driver.
ProgressSpec == Init /\ [][ProgressNext]_vars /\ WF_vars(ProgressDriver)

\* ------------------------------------------------ two instances, one disk
\* The running instance is suspended and the other one runs: the two change
\* places. The folders and the ledger are shared.
Switch ==
    /\ other' = [pc |-> pc, todo |-> todo, file |-> file, h |-> h,
                 raw_text |-> raw_text, header |-> header, rows |-> rows,
                 supplier |-> supplier, internal_text |-> internal_text,
                 annotated |-> annotated, cur |-> cur]
    /\ pc' = other.pc
    /\ todo' = other.todo
    /\ file' = other.file
    /\ h' = other.h
    /\ raw_text' = other.raw_text
    /\ header' = other.header
    /\ rows' = other.rows
    /\ supplier' = other.supplier
    /\ internal_text' = other.internal_text
    /\ annotated' = other.annotated
    /\ cur' = other.cur
    /\ UNCHANGED <<folders, ledger, arrivals, discovered, completed>>

TwoNext == Driver \/ Arrive \/ Switch

TwoSpec == Init /\ [][TwoNext]_vars

\* ------------------------------------------- the extractors on their own
\* Lines of a results section, as OCR gives them.
RL_header ==
    << "R", "e", "s", "u", "l", "t", "s", " ", "o", "f", " ", "A", "n", "a",
       "l", "y", "s", "i", "s" >>
RL_stop ==
    << "M", "e", "a", "s", "u", "r", "e", "m", "e", "n", "t", " ", "U", "n",
       "c", "e", "r", "t", "a", "i", "n", "t", "y" >>
RL_none ==
    << "N", "o", "t", " ", "D", "e", "t", "e", "c", "t", "e", "d" >>
RL_ddt ==
    << "D", "D", "T", " ", "0", ".", "0", "1", "5", " ", "0", ".", "5" >>
RL_lindane ==
    << "L", "i", "n", "d", "a", "n", "e", " ", "<", "L", "O", "Q", " ", "0",
       ".", "1" >>
ResultLines == {RL_header, RL_stop, RL_none, RL_ddt, RL_lindane}

\* Lines of a certificate header.
HL_lot ==
    << "L", "o", "t", " ", "N", "u", "m", "b", "e", "r", ":", " ", "1", "2",
       "3", "4", "5" >>
HL_lot2 ==
    << "L", "O", "T", " ", "N", "U", "M", "B", "E", "R", " ", "1", "2", "/",
       "7", "7", "8" >>
HL_lot_na ==
    << "L", "o", "t", " ", "N", "u", "m", "b", "e", "r", ":", " ", "n", "/",
       "a" >>
HL_cert ==
    << "C", "e", "r", "t", "i", "f", "i", "c", "a", "t", "e", " ", "N", "u",
       "m", "b", "e", "r", ":", " ", "D", "O", "K", "K", "I", "-", "2", "4",
       "-", "1" >>
HL_cert_na ==
    << "C", "e", "r", "t", "i", "f", "i", "c", "a", "t", "e", " ", "N", "u",
       "m", "b", "e", "r", ":", " ", "p", "e", "n", "d", "i", "n", "g" >>
HL_cert2 ==
    << "c", "e", "r", "t", "i", "f", "i", "c", "a", "t", "e", " ", "n", "u",
       "m", "b", "e", "r", " ", "d", "o", "k", "k", "i", "-", "1", "2" >>
HeaderLines == {HL_lot, HL_lot2, HL_lot_na, HL_cert, HL_cert_na, HL_cert2}

\* Longest results text and longest header text, in lines.
MaxResultLines == 4
MaxHeaderLines == 3

\* The text of a page: every line followed by a line break.
RECURSIVE TextOf(_)
TextOf(q) == IF q = <<>> THEN <<>> ELSE q[1] \o <<NL>> \o TextOf(Tail(q))

LineSeqs(alphabet, n) == UNION {[1..k -> alphabet] : k \in 1..n}

InputTexts ==
    {TextOf(q) : q \in LineSeqs(ResultLines, MaxResultLines)}
    \cup {TextOf(q) : q \in LineSeqs(HeaderLines, MaxHeaderLines)}

\* A text is given to the extractors and then to the reconciliation lookup,
\* as lines 317-333 do, with no file around it.
ExtractInit ==
    /\ inbox = EmptyFolder /\ proc = EmptyFolder
    /\ done = EmptyFolder /\ err = EmptyFolder
    /\ ledger = {}
    /\ pc = "text"
    /\ todo = {}
    /\ raw_text \in InputTexts
    /\ file = NoName /\ h = NoHash /\ header = NoHeader
    /\ rows = <<>> /\ supplier = "" /\ internal_text = <<>> /\ annotated = NoName
    /\ arrivals = 0
    /\ other = Started
    /\ discovered = {} /\ cur = NoCur /\ completed = {}

\* header = extract_header_fields(raw_text);
\* rows = extract_results_to_rows(raw_text, header), lines 317-318
Extract ==
    /\ pc = "text"
    /\ LET hdr == extract_header_fields(raw_text)
       IN  /\ header' = hdr
           /\ rows' = extract_results_to_rows(raw_text, hdr)
    /\ pc' = "extracted"
    /\ UNCHANGED <<folders, ledger, todo, file, h, raw_text, supplier,
                   internal_text, annotated, env, ghost>>

\* lines 326-333 on the text
Reconcile ==
    /\ pc = "extracted"
    /\ LET rows_xl == RowsXl(raw_text)
       IN  IF rows_xl # <<>>
           THEN /\ supplier' = Supplier(rows_xl)
                /\ internal_text' = InternalText(rows_xl)
                /\ pc' = "reconciled"
           ELSE /\ pc' = "lot_not_found"
                /\ UNCHANGED <<supplier, internal_text>>
    /\ UNCHANGED <<folders, ledger, todo, file, h, raw_text, header, rows,
                   annotated, env, ghost>>

ExtractNext == Extract \/ Reconcile

ExtractSpec == ExtractInit /\ [][ExtractNext]_vars

\* ------------------------------------------------------------ properties
InFolder(folder, f) == \E p \in Paths : folder[p] = f

\* C1: the Ledger changes only by the insert of line 339, for a file that
\* is not a duplicate, for which no statement has raised, whose OCR,
\* extraction, reconciliation and annotation have run and which the final
\* move has already put in the done folder; the row added is that file's
\* hash and name. No step of the duplicate branch and no step of the except
\* clause changes the Ledger.
C1_LedgerCommitPoint ==
    [][ledger' # ledger =>
        /\ pc = "mark_done"
        /\ ~cur.dup
        /\ cur.raised = ""
        /\ {"claim", "hash", "ocr", "extract", "reconcile", "annotate",
            "print", "move_done"} \subseteq cur.ran
        /\ done[file] = cur.f
        /\ err[file] # cur.f
        /\ ledger' = ledger \cup {[filehash |-> file_hash(cur.f.c), filename |-> file]}
        /\ pc' = "for"]_vars

\* C1 witness: a file has been committed: it is in the done folder and its
\* hash is in the Ledger.
C1_Witness ==
    /\ pc = "for"
    /\ "mark_done" \in cur.ran
    /\ done[cur.name] = cur.f
    /\ file_hash(cur.f.c) \in LedgerHashes

\* C2 as claimed: a file whose hash was in the Ledger when it was claimed is,
\* once the driver is done with it, in the done folder.
C2_DuplicateOnlyMovesToDone ==
    (pc = "for" /\ cur.dup) => done[cur.name] = cur.f

\* C2 as amended: while the driver handles a file whose hash was in the
\* Ledger when it was claimed, the Ledger does not change, none of OCR,
\* extraction, the results CSV, reconciliation, annotation and printing
\* runs, the inbound folder is not touched, and the only change to the
\* folders is the move of that file from the working folder to the done
\* folder or, after that move has raised, to the error folder.
C2_DuplicateShortCircuit ==
    [][/\ cur'.dup =>
            /\ pc' \in {"dupmove", "handler", "for", "stopped"}
            /\ cur'.ran \subseteq {"claim", "hash", "dupmove", "to_err", "handler_raised"}
       /\ (cur.dup /\ pc \in {"dupmove", "handler"}) =>
            /\ ledger' = ledger
            /\ inbox' = inbox
            /\ \/ UNCHANGED <<proc, done, err>>
               \/ /\ pc = "dupmove"
                  /\ proc[file] = cur.f
                  /\ done' = [done EXCEPT ![file] = cur.f]
                  /\ proc' = [proc EXCEPT ![file] = NoFile]
                  /\ err' = err
               \/ /\ pc = "handler" /\ cur.raised = "dupmove"
                  /\ proc[file] = cur.f
                  /\ err' = [err EXCEPT ![file] = cur.f]
                  /\ proc' = [proc EXCEPT ![file] = NoFile]
                  /\ done' = done]_vars

\* C2 witness: a duplicate has been moved to the done folder.
C2_Witness ==
    /\ pc = "for"
    /\ cur.dup
    /\ "dupmove" \in cur.ran
    /\ done[cur.name] = cur.f
    /\ file_hash(cur.f.c) \in LedgerHashes

\* C3: over all arrivals and restarts, the non-duplicate path (annotation
\* written, print dispatched, file moved to done) completes for at most one
\* file of any content hash.
C3_ExactlyOncePerHash ==
    \A f \in completed, g \in completed :
        file_hash(f.c) = file_hash(g.c) => f = g

\* C4: between files, a file that was claimed and was no duplicate is in the
\* done folder with its hash in the Ledger, or in the error folder with no
\* ledger row written for it.
C4_TerminalStateConsistency ==
    (pc = "for" /\ cur.f # NoFile /\ ~cur.dup) =>
        \/ /\ done[cur.name] = cur.f
           /\ file_hash(cur.f.c) \in LedgerHashes
        \/ /\ err[cur.name] = cur.f
           /\ "mark_done" \notin cur.ran

\* The steps after the claim that C5 lists.
StepsAfterClaim == {"hash", "ocr", "csv", "reconcile", "annotate", "move_done"}

\* C5: when a step after the claim has raised and the except clause has
\* acted, the file is in the error folder, no ledger row was written for it
\* and the loop is at its for statement, about to take the next file.
C5_FailureIsolation ==
    (cur.raised \in StepsAfterClaim /\ pc # "handler") =>
        /\ pc = "for"
        /\ err[cur.name] = cur.f
        /\ "mark_done" \notin cur.ran

\* The maximal digit runs of a text, from the definition: a stretch of
\* digits with no digit before it and none after it.
MaximalDigitRuns(s) ==
    {SubSeq(s, i, j) : <<i, j>> \in
        {t \in (1..Len(s)) \X (1..Len(s)) :
            /\ t[1] <= t[2]
            /\ \A k \in t[1]..t[2] : s[k] \in Digits
            /\ (t[1] = 1 \/ s[t[1] - 1] \notin Digits)
            /\ (t[2] = Len(s) \/ s[t[2] + 1] \notin Digits)}}

ExternalLotIds == {df[k].Lot_external : k \in 1..Len(df)}

LotFound(text) == MaximalDigitRuns(text) \cap ExternalLotIds # {}

\* C6: reconciliation raises "lot not found" exactly when no maximal digit
\* run of the raw text is the external lot id of a reference record; then
\* annotation and printing have not run, no ledger row was written and,
\* once the except clause has acted, the document is in the error folder.
C6_ReconciliationFailure ==
    /\ cur.raised = "reconcile" => ~LotFound(OcrText(cur.f.c))
    /\ "reconcile" \in cur.ran => LotFound(OcrText(cur.f.c))
    /\ cur.raised = "reconcile" =>
          cur.ran \cap {"annotate", "print", "move_done", "mark_done"} = {}
    /\ (cur.raised = "reconcile" /\ pc # "handler") =>
          /\ pc = "for"
          /\ err[cur.name] = cur.f

\* The places a file is at.
Locations(f) ==
    {<<"inbox", p>> : p \in {q \in Paths : inbox[q] = f}}
    \cup {<<"proc", p>> : p \in {q \in Paths : proc[q] = f}}
    \cup {<<"done", p>> : p \in {q \in Paths : done[q] = f}}
    \cup {<<"err", p>> : p \in {q \in Paths : err[q] = f}}

\* C7: every certificate file a scan has listed is in exactly one of the
\* four folders.
C7_SingleLocationNoLoss ==
    \A f \in discovered : Cardinality(Locations(f)) = 1

\* C8: when the claim move has raised, the driver moves nothing: the except
\* clause leaves the four folders and the Ledger as they are.
C8_AcquisitionFailureNoEffect ==
    [][(pc = "handler" /\ cur.raised = "claim") =>
          UNCHANGED <<inbox, proc, done, err, ledger>>]_vars

\* The files the environment can drop.
AllFiles == {Cert(i, c) : i \in 1..MaxArrivals, c \in Contents}

\* C9: when the process is from some point on no longer stopped, a file
\* that was in the working folder while the process was stopped is, after
\* the restart, eventually in the done or the error folder.
C9_CrashRecovery ==
    <>[](pc # "stopped") =>
        \A f \in AllFiles :
            (pc = "stopped" /\ InFolder(proc, f))
                ~> (InFolder(done, f) \/ InFolder(err, f))

Extracted == pc \in {"extracted", "reconciled", "lot_not_found"}

TextLines == SplitLines(raw_text)

\* What a line is, by its own characters.
IsHeading(l) == Contains(Lower(l), S_results_of_analysis)
IsStop(l) == ~IsHeading(l) /\ Contains(Lower(l), S_measurement_uncertainty)
IsNone(l) == ~IsHeading(l) /\ ~IsStop(l) /\ Contains(Lower(l), S_not_detected)

\* The decimals of a line: digits "." digits, with no digit before or after.
DecimalSpans(s) ==
    {t \in (1..Len(s)) \X (1..Len(s)) :
        /\ t[1] < t[2]
        /\ (t[1] = 1 \/ s[t[1] - 1] \notin Digits)
        /\ (t[2] = Len(s) \/ s[t[2] + 1] \notin Digits)
        /\ \E m \in (t[1] + 1)..(t[2] - 1) :
              /\ s[m] = "."
              /\ \A k \in (t[1]..t[2]) \ {m} : s[k] \in Digits}

Decimals(s) == {SubSeq(s, t[1], t[2]) : t \in DecimalSpans(s)}

FirstDecimal(s) ==
    LET t == CHOOSE u \in DecimalSpans(s) : \A v \in DecimalSpans(s) : u[1] <= v[1]
    IN  IF DecimalSpans(s) = {} THEN <<>> ELSE SubSeq(s, t[1], t[2])

\* The text matched by a pattern that starts at the leftmost position where
\* it can start and is as long as it can be.
LotPattern(q) ==
    /\ q # <<>>
    /\ q[1] \in Digits /\ q[Len(q)] \in Digits
    /\ \A k \in 1..Len(q) : q[k] \in Digits \cup {"/"}
    /\ Cardinality({k \in 1..Len(q) : q[k] = "/"}) <= 1

CertPattern(q) ==
    /\ Len(q) > 5
    /\ SubSeq(q, 1, 5) = <<"d", "o", "k", "k", "i">>
    /\ \A k \in 6..Len(q) : q[k] \in Digits \cup {"-"}

LeftmostLongest(l, P(_)) ==
    LET spans == {t \in (1..Len(l)) \X (1..Len(l)) :
                     t[1] <= t[2] /\ P(SubSeq(l, t[1], t[2]))}
        best  == CHOOSE u \in spans : \A v \in spans :
                     u[1] < v[1] \/ (u[1] = v[1] /\ u[2] >= v[2])
    IN  IF spans = {} THEN <<>> ELSE SubSeq(l, best[1], best[2])

\* The facts about one line that the claims speak of. lot and cert are the
\* pattern's match when the line has the phrase, <<>> otherwise; runs are
\* the line's maximal digit runs.
LineFacts(l) ==
    [heading  |-> IsHeading(l),
     stop     |-> IsStop(l),
     none     |-> IsNone(l),
     loq      |-> Contains(Lower(l), S_loq),
     analytes |-> {p \in Range(PESTICIDES) : Contains(Lower(l), p)},
     decimals |-> Decimals(l),
     first    |-> FirstDecimal(l),
     lot      |-> IF Contains(Lower(l), S_lot_number)
                  THEN LeftmostLongest(l, LotPattern) ELSE <<>>,
     cert     |-> IF Contains(Lower(l), S_certificate_number)
                  THEN LeftmostLongest(Lower(l), CertPattern) ELSE <<>>,
     runs     |-> MaximalDigitRuns(l)]

\* The facts depend on the line alone: they are computed once for each line
\* the texts are made of and looked up by the line.
FactsTable == {<<l, LineFacts(l)>> : l \in ResultLines \cup HeaderLines}

Facts(l) == At(FactsTable, l)

\* Line i is reached while capturing: a heading line lies before it and no
\* line between the first heading and line i ends the extraction.
Reached(lines, i) ==
    \E f \in 1..(i - 1) :
        /\ Facts(lines[f]).heading
        /\ \A k \in 1..(f - 1) : ~Facts(lines[k]).heading
        /\ \A j \in (f + 1)..(i - 1) :
              ~Facts(lines[j]).stop /\ ~Facts(lines[j]).none

SyntheticRow == Row(header, S_Pesticide_Residues, S_Not_detected, <<>>)

\* C11: when the results extractor, while capturing, reaches a line that
\* contains "not detected", the rows it returns are exactly one row, the
\* synthetic row (Pesticide Residues, Not detected, no unit), whatever
\* analyte lines come before or after that line.
C11_NotDetectedSingleRow ==
    Extracted =>
        LET lines == TextLines
        IN  (\E i \in 1..Len(lines) : Reached(lines, i) /\ Facts(lines[i]).none)
                => rows = <<SyntheticRow>>

\* Line i is scanned for analytes and contains the lexicon analyte p.
AnalyteAt(lines, i, p) ==
    /\ Reached(lines, i)
    /\ ~Facts(lines[i]).heading /\ ~Facts(lines[i]).stop /\ ~Facts(lines[i]).none
    /\ p \in Facts(lines[i]).analytes

\* C12 as claimed: for every line of the results section that contains a
\* lexicon analyte and a decimal d, a row for that analyte with Result d and
\* Unit mg/kg is emitted.
C12_RowForEveryDecimal ==
    Extracted =>
        LET lines == TextLines
        IN  \A i \in 1..Len(lines) : \A p \in Range(PESTICIDES) :
                AnalyteAt(lines, i, p) =>
                    \A d \in Facts(lines[i]).decimals :
                        Row(header, Title(p), d, S_mg_kg) \in Range(rows)

\* The (line, analyte) pairs of the results section with "<loq" on the line,
\* and those without it but with a decimal.
LoqPairs(lines) ==
    {t \in (1..Len(lines)) \X Range(PESTICIDES) :
        AnalyteAt(lines, t[1], t[2]) /\ Facts(lines[t[1]]).loq}

NumericPairs(lines) ==
    {t \in (1..Len(lines)) \X Range(PESTICIDES) :
        /\ AnalyteAt(lines, t[1], t[2])
        /\ ~Facts(lines[t[1]]).loq
        /\ Facts(lines[t[1]]).decimals # {}}

\* C12 as amended: for every line of the results section that is scanned
\* for analytes, contains a lexicon analyte and a decimal and does not
\* contain "<loq", a row for that analyte is emitted whose Result is the
\* first (leftmost) decimal of the line and whose Unit is mg/kg; and every
\* row with Unit mg/kg comes from such a line.
C12_NumericRow ==
    Extracted =>
        LET lines == TextLines
            pairs == NumericPairs(lines)
        IN  /\ \A t \in pairs :
                  Row(header, Title(t[2]), Facts(lines[t[1]]).first, S_mg_kg)
                      \in Range(rows)
            /\ \A k \in 1..Len(rows) :
                  rows[k].Unit = S_mg_kg =>
                      \E t \in pairs :
                          rows[k] = Row(header, Title(t[2]),
                                        Facts(lines[t[1]]).first, S_mg_kg)

\* C12 witness: a results line "DDT 0.015 0.5" has given the row Ddt,
\* 0.015, mg/kg.
C12_Witness ==
    /\ Extracted
    /\ \E i \in 1..Len(TextLines) :
          /\ TextLines[i] = RL_ddt
          /\ AnalyteAt(TextLines, i, PESTICIDES[1])
    /\ Row(header, Title(PESTICIDES[1]), <<"0", ".", "0", "1", "5">>, S_mg_kg)
          \in Range(rows)

\* C13: for every line of the results section that contains a lexicon
\* analyte and "<loq" (in any case), a row for that analyte with Result
\* "LOQ" and Unit "" is emitted; the rows with Result "LOQ" are as many as
\* such (line, analyte) pairs, and the rows with Unit mg/kg as many as the
\* pairs whose line has a decimal and no "<loq", so a line with "<loq"
\* gives no numeric row even when it contains a decimal.
C13_LoqRow ==
    Extracted =>
        LET lines == TextLines
        IN  /\ \A t \in LoqPairs(lines) :
                  Row(header, Title(t[2]), S_LOQ, <<>>) \in Range(rows)
            /\ Cardinality({k \in 1..Len(rows) : rows[k].Result = S_LOQ})
                  = Cardinality(LoqPairs(lines))
            /\ Cardinality({k \in 1..Len(rows) : rows[k].Unit = S_mg_kg})
                  = Cardinality(NumericPairs(lines))

\* C13 witness: a results line "Lindane <LOQ 0.1", which has a decimal, has
\* given the row Lindane, LOQ, "" and no row with Unit mg/kg.
C13_Witness ==
    /\ Extracted
    /\ \E i \in 1..Len(TextLines) :
          /\ TextLines[i] = RL_lindane
          /\ AnalyteAt(TextLines, i, PESTICIDES[2])
          /\ Decimals(TextLines[i]) # {}
    /\ Row(header, Title(PESTICIDES[2]), S_LOQ, <<>>) \in Range(rows)
    /\ \A k \in 1..Len(rows) : rows[k].Unit # S_mg_kg

\* The first line, top to bottom, that has the phrase and the pattern of a
\* header field (0 when there is none).
FirstWith(lines, field) ==
    LET at == Where(Len(lines), LAMBDA i : Facts(lines[i])[field] # <<>>)
    IN  IF at = <<>> THEN 0 ELSE at[1]

S_12345 == <<"1", "2", "3", "4", "5">>

\* C14: LotNumber is the digits[/digits] match of the first line, top to
\* bottom, that contains "lot number" (in any case) and the pattern, and
\* CertificateNumber is the identifier of the first line that contains
\* "certificate number" and the identifier pattern, written "Dokki...";
\* lines before it that contain the phrase without the pattern and lines
\* after it change nothing; a field with no qualifying line is the empty
\* string; a first qualifying lot line "Lot Number: 12345" gives "12345".
C14_FirstMatchWins ==
    Extracted =>
        LET lines == TextLines
            lot   == FirstWith(lines, "lot")
            cert  == FirstWith(lines, "cert")
        IN  /\ lot = 0 => header.LotNumber = <<>>
            /\ lot # 0 =>
                  /\ header.LotNumber = Facts(lines[lot]).lot
                  /\ lines[lot] = HL_lot => header.LotNumber = S_12345
            /\ cert = 0 => header.CertificateNumber = <<>>
            /\ cert # 0 =>
                  header.CertificateNumber
                      = <<"D">> \o Tail(Facts(lines[cert]).cert)

\* C14 witness: the text "Lot Number: n/a", "Lot Number: 12345",
\* "LOT NUMBER 12/778" has given LotNumber "12345": the first line has the
\* phrase without the pattern, the third qualifies too.
C14_Witness ==
    /\ Extracted
    /\ TextLines = <<HL_lot_na, HL_lot, HL_lot2>>
    /\ header.LotNumber = S_12345
    /\ header.CertificateNumber = <<>>

\* The first heading line and the first line after it that ends the
\* section (0 and Len + 1 when there is none).
FirstHeading(lines) ==
    LET at == Where(Len(lines), LAMBDA i : Facts(lines[i]).heading)
    IN  IF at = <<>> THEN 0 ELSE at[1]

SectionEnd(lines) ==
    LET at == Where(Len(lines),
                    LAMBDA i : /\ i > FirstHeading(lines)
                               /\ Facts(lines[i]).stop \/ Facts(lines[i]).none)
    IN  IF at = <<>> THEN Len(lines) + 1 ELSE at[1]

\* The rows of the lines i..last, line by line; a line that repeats the
\* heading gives none.
RECURSIVE RowsOfLines(_, _, _)
RowsOfLines(lines, i, last) ==
    IF i > last THEN <<>>
    ELSE (IF Facts(lines[i]).heading THEN <<>>
          ELSE LineRows(Lower(lines[i]), header, 1))
         \o RowsOfLines(lines, i + 1, last)

\* C15: the rows are those of the lines strictly between the first
\* "results of analysis" line and the first "measurement uncertainty" line
\* after it, in line order and without merging repeated analytes (a "not
\* detected" line ends the section as well and adds its own row, see C11):
\* no row comes from a line at or before the heading, none from the stop
\* line or any later line, also when "results of analysis" occurs again
\* after the stop; without a heading there is no row.
C15_SectionBounds ==
    Extracted =>
        LET lines == TextLines
            first == FirstHeading(lines)
            last  == SectionEnd(lines)
        IN  IF first = 0 THEN rows = <<>>
            ELSE rows = RowsOfLines(lines, first + 1, last - 1)
                        \o (IF last <= Len(lines) /\ Facts(lines[last]).none
                            THEN <<SyntheticRow>> ELSE <<>>)

\* C15 witness: the text "Results of Analysis", "Measurement Uncertainty",
\* "Results of Analysis", "DDT 0.015 0.5" has given no row: the analyte line
\* follows a second heading after the stop.
C15_Witness ==
    /\ Extracted
    /\ TextLines = <<RL_header, RL_stop, RL_header, RL_ddt>>
    /\ rows = <<>>

\* Rows in line order with a repeated analyte: heading, "DDT 0.015 0.5",
\* "Lindane <LOQ 0.1", "DDT 0.015 0.5" has given Ddt, Lindane, Ddt.
C15_Repeated ==
    /\ Extracted
    /\ TextLines = <<RL_header, RL_ddt, RL_lindane, RL_ddt>>
    /\ Len(rows) = 3
    /\ rows[1] = rows[3] /\ rows[1].Analyte = Title(PESTICIDES[1])
    /\ rows[2].Analyte = Title(PESTICIDES[2])

\* The reference records, by position in build order, whose external lot id
\* is a digit run of the raw text. A line break is no digit, so the digit
\* runs of the text are those of its lines.
Matching ==
    LET lines == TextLines
        runs  == UNION {Facts(lines[i]).runs : i \in 1..Len(lines)}
    IN  {k \in 1..Len(df) : df[k].Lot_external \in runs}

\* C16: reconciliation succeeds exactly when some reference record matches
\* a digit run of the raw text; then the supplier is that of the matching
\* record that comes first in the reference table, wherever its digits are
\* in the text, and the internal-lot text is the internal lot ids of the
\* matching records, each once, joined with " / ".
C16_ReconcilerResult ==
    pc \in {"lot_not_found", "reconciled"} =>
        LET matching == Matching
            internal == {df[k].internal : k \in matching}
        IN  /\ pc = "lot_not_found" => matching = {}
            /\ pc = "reconciled" =>
                  /\ matching # {}
                  /\ \E k \in matching :
                        /\ \A j \in matching : k <= j
                        /\ supplier = df[k].supplier
                  /\ \E q \in [1..Cardinality(internal) -> internal] :
                        /\ \A a, b \in DOMAIN q : a # b => q[a] # q[b]
                        /\ internal_text = Join(q, " / ")

\* C16 witness: the text "LOT NUMBER 12/778" is reconciled; its first digit
\* run, 12, belongs to the second record (Delta Co), 778 to the first and
\* the third; the supplier is Acme Farms, the first record's, and INT-12,
\* which two matching records carry, appears once.
C16_Witness ==
    /\ pc = "reconciled"
    /\ TextLines = <<HL_lot2>>
    /\ Matching = {1, 2, 3}
    /\ FindallDigits(raw_text)[1] = df[2].Lot_external
    /\ supplier = "Acme Farms"
    /\ internal_text = <<"INT-99", " / ", "INT-12">>

\* C17: with two instances of the loop on the same folders, no file is
\* claimed by both, and an instance that has lost the claim (the file it
\* listed is no longer in the inbound folder when it tries to move it)
\* leaves the working folder as it is: it does not move the file the other
\* instance holds there.
C17_MoveMutualExclusion ==
    /\ [](cur.f # NoFile => other.cur.f # cur.f)
    /\ [][(pc = "handler" /\ cur.raised = "claim" /\ inbox[file] = NoFile)
            => proc' = proc]_vars

\* The name with its four-character extension replaced by a suffix.
Stem(name) == SubSeq(name, 1, Len(name) - Len(S_pdf))
CsvNameOf(name) == Stem(name) \o S_RESULTS_csv

HoldsIn(folder, p, f) == p \in Paths /\ folder[p] = f

\* C18: when a document accepted by the extension filter ("a.pdf" as well
\* as "B.PDF") has gone through the whole non-duplicate path and has given
\* at least one row, the done folder holds the source document under its
\* name, the results CSV under the name with the extension replaced by
\* "_RESULTS.csv" and the annotated copy under a third name; when it has
\* given no row, the done folder holds no results CSV of it.
C18_ResultsArtifact ==
    (pc = "for" /\ "mark_done" \in cur.ran) =>
        LET made == At(RowsTable, OcrText(cur.f.c))
        IN  /\ HoldsIn(done, cur.name, cur.f)
            /\ made # <<>> =>
                  /\ HoldsIn(done, CsvNameOf(cur.name), Artifact("csv", cur.f.id))
                  /\ \E p \in Paths \ {cur.name, CsvNameOf(cur.name)} :
                        done[p] = Artifact("annotated", cur.f.id)
            /\ made = <<>> =>
                  \A p \in Paths : done[p] # Artifact("csv", cur.f.id)

\* C19: the done folder holds no results CSV and no annotated copy made
\* from a document that is in the error folder.
C19_NoOutputFromFailed ==
    \A n \in Names :
        err[n] # NoFile =>
            \A p \in Paths :
                /\ done[p] # Artifact("csv", err[n].id)
                /\ done[p] # Artifact("annotated", err[n].id)

\* The names the extension filter accepts.
PdfNames == {n \in Names : IsPdf(n)}

\* The certificate file dropped i-th is in the folder.
Holds(folder, i) ==
    \E p \in Paths : folder[p].kind = "cert" /\ folder[p].id = i

\* It has left the inbound and the working folder and is in the done or the
\* error folder.
Resting(i) ==
    /\ ~Holds(inbox, i) /\ ~Holds(proc, i)
    /\ Holds(done, i) \/ Holds(err, i)

\* C20: while the process keeps running, every statement terminates and the
\* moves succeed, every PDF file that is in the inbound folder, whenever it
\* arrived, is eventually out of the inbound and the working folder and in
\* the done or the error folder; and no step moves a file that is in the
\* done or the error folder: it is never again in the inbound or the
\* working folder, nor in the other of the two folders or under another
\* name.  (That a later file of the same name replaces it is C7's matter.)
C20_Progress ==
    /\ \A i \in 1..MaxArrivals :
          (\E n \in PdfNames : inbox[n].id = i) ~> Resting(i)
    /\ [][\A p \in Paths :
            /\ done[p].kind = "cert" =>
                  /\ ~Holds(inbox', done[p].id) /\ ~Holds(proc', done[p].id)
                  /\ ~Holds(err', done[p].id)
                  /\ \A q \in Paths \ {p} : done'[q] # done[p]
            /\ err[p].kind = "cert" =>
                  /\ ~Holds(inbox', err[p].id) /\ ~Holds(proc', err[p].id)
                  /\ ~Holds(done', err[p].id)
                  /\ \A q \in Paths \ {p} : err'[q] # err[p]]_vars

\* C20 witness: two files have been dropped, one of them while the driver
\* was busy with the scan that listed the other; one rests in the done
\* folder, the other in the error folder, and the driver is listing again.
C20_Witness ==
    /\ pc = "listdir"
    /\ Resting(1) /\ Resting(2)
    /\ Holds(done, 1) /\ Holds(err, 2)

====
